---- MODULE Spec2Model ----
(***************************************************************************)
(* ESP32 WiFi dashboard: the WebDashboard class (WebDashboard.cpp) and the *)
(* sketches that run on it or beside it:                                   *)
(*   "template"   the clean template sketch            (unnamed/part_003)  *)
(*   "tempmon"    the temperature and humidity monitor (unnamed/part_004)  *)
(*   "light"      the light-sensor sketch              (unnamed/part_004)  *)
(*   "monolithic" the old single-file sketch           (unnamed/part_002)  *)
(*   "library"    a client that drives the public interface of the class   *)
(*                call by call, in any order, with the template's          *)
(*                callbacks and data structures                            *)
(*                                                                         *)
(* The device runs one thread: setup() once, then loop() forever.  pc is   *)
(* the position of that thread.  A request handler runs inside             *)
(* dashboard.loop() (server.handleClient()) and is one step, except        *)
(* handleReset, whose four statements are four steps.  What a handler did  *)
(* (callbacks invoked, pin writes, responses sent, delays, the restart) is *)
(* recorded in order in trace, which is cleared when the thread leaves     *)
(* dashboard.loop().                                                       *)
(*                                                                         *)
(* Abstractions: millis() is not modelled, a periodic block either runs or *)
(* is skipped (the first dashboard update of the light-sensor sketch is    *)
(* always due: setup() waits 1000 ms, the period is 250 ms); floats are    *)
(* integers (temperatures in tenths of a degree); the window of the last   *)
(* ten ADC samples of the light-sensor sketch is not kept, its average is  *)
(* an input of readLightSensor (every value is the average of ten equal    *)
(* samples, and the sketch uses the window only through its average);      *)
(* Serial output, labels, units, show flags, project name, version and     *)
(* uptime are left out of the data structures and of the JSON documents.   *)
(***************************************************************************)
EXTENDS Integers, Sequences, FiniteSets, TLC

VARIABLES
    sketch,        \* which firmware is flashed
    pc,            \* position of the single thread
    dashboard,     \* the WebDashboard object (its private fields)
    currentMode,   \* String currentMode / mode / projectMode
    ledState,      \* bool ledState
    relayState,    \* bool relayState
    fanState,      \* bool fanState (temperature monitor)
    sensorValue,   \* int sensorValue
    temperature,   \* float temperature, in tenths of a degree
    humidity,      \* float humidity, in tenths of a percent
    pins,          \* level of the output pins
    sensors,       \* SensorData sensors
    outputs,       \* OutputStates outputs
    systemInfo,    \* SystemInfo systemInfo
    lightRawValue, \* int lightRawValue (light-sensor sketch)
    lightPercent,  \* int lightPercent
    lightStatus,   \* String lightStatus
    req,           \* the request dispatched by the latest handleClient()
    trace,         \* what the handler of req did, in order
    sentMode,      \* history: the mode string of the last accepted
                   \* /api/mode request, "none" once a later request or a
                   \* restart has changed the mode
    dhtRead        \* history: what the DHT read of this loop iteration
                   \* returned: "ok", "failed", or "none" (not read)

vars == <<sketch, pc, dashboard, currentMode, ledState, relayState, fanState,
          sensorValue, temperature, humidity, pins, sensors, outputs,
          systemInfo, lightRawValue, lightPercent, lightStatus, req, trace,
          sentMode, dhtRead>>

\* everything the application and the dashboard own (all but the history)
progVars == <<dashboard, currentMode, ledState, relayState, fanState,
              sensorValue, temperature, humidity, pins, sensors, outputs,
              systemInfo, lightRawValue, lightPercent, lightStatus>>

-----------------------------------------------------------------------------
(* Inputs                                                                  *)

Sketches == {"template", "tempmon", "light", "monolithic", "library"}
DashboardSketches == {"template", "tempmon", "light", "library"}

LED_PIN == 2
RELAY_PIN == 4
HIGH == "HIGH"
LOW == "LOW"

nullptr == "nullptr"

\* values of the `state` query parameter that are tried
StateArgs == {"0", "1", "true", ""}
\* values of the `mode` query parameter that are tried
ModeArgs == {"auto", "manual", "sleep", "Auto", ""}
\* analogRead() results that are tried (12-bit ADC)
AdcValues == {0, 1499, 1500, 2000, 2001, 4095}

NoArgs == [n \in {} |-> ""]
Arg(n, v) == [m \in {n} |-> v]

DashboardRoutes == {"/", "/api/status", "/api/output1", "/api/output2",
                    "/api/mode", "/api/reset", "/api/custom"}
MonoRoutes == {"/", "/api/status", "/api/led", "/api/relay", "/api/mode",
               "/api/reset"}

\* the query parameters tried with a route: none, or the one it reads
ArgsFor(route) ==
    IF route \in {"/api/output1", "/api/output2", "/api/led", "/api/relay"}
    THEN {NoArgs} \cup {Arg("state", v) : v \in StateArgs}
    ELSE IF route = "/api/mode"
         THEN {NoArgs} \cup {Arg("mode", m) : m \in ModeArgs}
         ELSE {NoArgs}

Request(route, args) == [route |-> route, args |-> args]
NoRequest == Request("none", NoArgs)

hasArg(r, n) == n \in DOMAIN r.args
arg(r, n) == IF hasArg(r, n) THEN r.args[n] ELSE ""

-----------------------------------------------------------------------------
(* Events of the trace                                                     *)

CallEv(fn, a) == [ev |-> "call", fn |-> fn, arg |-> a]
CallModeEv(fn, m) == [ev |-> "call", fn |-> fn, mode |-> m]
CallActionEv(fn) == [ev |-> "call", fn |-> fn]
WriteEv(pin, level) == [ev |-> "write", pin |-> pin, level |-> level]
SendEv(code, body) == [ev |-> "send", code |-> code, body |-> body]
DelayEv(ms) == [ev |-> "delay", ms |-> ms]
RestartEv == [ev |-> "restart"]

\* the events of kind k, in order
RECURSIVE EventsOf(_, _)
EventsOf(tr, k) ==
    IF tr = <<>> THEN <<>>
    ELSE IF Head(tr).ev = k THEN <<Head(tr)>> \o EventsOf(Tail(tr), k)
         ELSE EventsOf(Tail(tr), k)

Calls(tr) == EventsOf(tr, "call")
Sends(tr) == EventsOf(tr, "send")

\* position of the first event of kind k, 0 if there is none
FirstOf(tr, k) ==
    IF \E i \in 1..Len(tr) : tr[i].ev = k
    THEN CHOOSE i \in 1..Len(tr) :
            /\ tr[i].ev = k
            /\ \A j \in 1..(i - 1) : tr[j].ev # k
    ELSE 0

-----------------------------------------------------------------------------
(* The program state as one record, so that the functions of the source    *)
(* are operators from state to state                                       *)

Cur == [sketch |-> sketch, dashboard |-> dashboard,
        currentMode |-> currentMode, ledState |-> ledState,
        relayState |-> relayState, fanState |-> fanState,
        sensorValue |-> sensorValue, temperature |-> temperature,
        humidity |-> humidity, pins |-> pins, sensors |-> sensors,
        outputs |-> outputs, systemInfo |-> systemInfo,
        lightRawValue |-> lightRawValue, lightPercent |-> lightPercent,
        lightStatus |-> lightStatus, trace |-> trace]

Commit(g) ==
    /\ dashboard' = g.dashboard
    /\ currentMode' = g.currentMode
    /\ ledState' = g.ledState
    /\ relayState' = g.relayState
    /\ fanState' = g.fanState
    /\ sensorValue' = g.sensorValue
    /\ temperature' = g.temperature
    /\ humidity' = g.humidity
    /\ pins' = g.pins
    /\ sensors' = g.sensors
    /\ outputs' = g.outputs
    /\ systemInfo' = g.systemInfo
    /\ lightRawValue' = g.lightRawValue
    /\ lightPercent' = g.lightPercent
    /\ lightStatus' = g.lightStatus
    /\ trace' = g.trace

Log(g, e) == [g EXCEPT !.trace = Append(@, e)]

digitalWrite(g, pin, level) ==
    Log([g EXCEPT !.pins[pin] = level], WriteEv(pin, level))

delay(g, ms) == Log(g, DelayEv(ms))

Level(b) == IF b THEN HIGH ELSE LOW

\* mutant: the comparison is made with the other digit
Bool_isZero(state) == state = "0"

\* mutant: the word true is accepted as well
Bool_truthy(state) == state \in {"1", "true"}

Bool(state) == state = "1"

-----------------------------------------------------------------------------
(* Power-on state: the initialisers of the globals and the constructor     *)

NewDashboard ==
    [_server |-> nullptr,
     _sensorData |-> nullptr, _outputStates |-> nullptr,
     _systemInfo |-> nullptr,
     _output1Callback |-> nullptr, _output2Callback |-> nullptr,
     _modeCallback |-> nullptr, _resetCallback |-> nullptr,
     _customCallback |-> nullptr]

PowerOn(s) ==
    [sketch |-> s,
     dashboard |-> NewDashboard,
     currentMode |-> "auto",
     ledState |-> FALSE,
     relayState |-> FALSE,
     fanState |-> FALSE,
     sensorValue |-> 0,
     temperature |-> 0,
     humidity |-> 0,
     pins |-> [p \in {LED_PIN, RELAY_PIN} |-> LOW],
     sensors |-> [value1 |-> 0, value2 |-> 0, value3 |-> 0],
     outputs |-> [output1 |-> FALSE, output2 |-> FALSE],
     systemInfo |-> [mode |-> nullptr],
     lightRawValue |-> 0,
     lightPercent |-> 0,
     lightStatus |-> "?",
     trace |-> <<>>]

-----------------------------------------------------------------------------
(* WebDashboard: public methods                                            *)

begin(g) == [g EXCEPT !.dashboard._server = "WebServer"]

updateSensorData(g, data) == [g EXCEPT !.dashboard._sensorData = data]
updateOutputStates(g, states) == [g EXCEPT !.dashboard._outputStates = states]
updateSystemInfo(g, info) == [g EXCEPT !.dashboard._systemInfo = info]

onOutput1Change(g, callback) ==
    [g EXCEPT !.dashboard._output1Callback = callback]
onOutput2Change(g, callback) ==
    [g EXCEPT !.dashboard._output2Callback = callback]
dashboard_onModeChange(g, callback) ==
    [g EXCEPT !.dashboard._modeCallback = callback]
dashboard_onReset(g, callback) ==
    [g EXCEPT !.dashboard._resetCallback = callback]
dashboard_onCustomAction(g, callback) ==
    [g EXCEPT !.dashboard._customCallback = callback]

-----------------------------------------------------------------------------
(* Template sketch: callbacks                                              *)

\* mutant: the LED too is switched in manual mode only
onLEDChange_manualOnly(g, state) ==
    IF g.currentMode = "manual"
    THEN LET g1 == [g EXCEPT !.ledState = state]
             g2 == digitalWrite(g1, LED_PIN, Level(state))
         IN  [g2 EXCEPT !.outputs.output1 = g2.ledState]
    ELSE g

onLEDChange(g, state) ==
    LET g1 == [g EXCEPT !.ledState = state]
        g2 == digitalWrite(g1, LED_PIN, Level(state))
    IN  [g2 EXCEPT !.outputs.output1 = g2.ledState]

\* mutant: the relay is switched in every mode
onRelayChange_anyMode(g, state) ==
    LET g1 == [g EXCEPT !.relayState = state]
        g2 == digitalWrite(g1, RELAY_PIN, Level(state))
    IN  [g2 EXCEPT !.outputs.output2 = g2.relayState]

onRelayChange(g, state) ==
    IF g.currentMode = "manual"
    THEN LET g1 == [g EXCEPT !.relayState = state]
             g2 == digitalWrite(g1, RELAY_PIN, Level(state))
         IN  [g2 EXCEPT !.outputs.output2 = g2.relayState]
    ELSE g

\* mutant: only the three documented modes are stored
onModeChange_knownOnly(g, mode) ==
    IF mode \in {"auto", "manual", "sleep"}
    THEN LET g1 == [g EXCEPT !.currentMode = mode]
         IN  [g1 EXCEPT !.systemInfo.mode = g1.currentMode]
    ELSE g

onModeChange(g, mode) ==
    LET g1 == [g EXCEPT !.currentMode = mode]
    IN  [g1 EXCEPT !.systemInfo.mode = g1.currentMode]

onReset(g) == g

BlinkCount == 5

\* for (i = 0; i < n; i++) { HIGH; delay(150); LOW; delay(150); }
RECURSIVE Blink(_, _)
Blink(g, n) ==
    IF n = 0 THEN g
    ELSE LET g1 == digitalWrite(g, LED_PIN, HIGH)
             g2 == delay(g1, 150)
             g3 == digitalWrite(g2, LED_PIN, LOW)
             g4 == delay(g3, 150)
         IN  Blink(g4, n - 1)

\* mutant: the LED is left as the last blink left it
onCustomAction_noRestore(g) == Blink(g, BlinkCount)

onCustomAction(g) ==
    LET originalState == g.ledState
        g1 == Blink(g, BlinkCount)
    IN  digitalWrite(g1, LED_PIN, Level(originalState))

-----------------------------------------------------------------------------
(* Temperature monitor: callbacks                                          *)

onFanControl(g, state) ==
    IF g.currentMode = "manual"
    THEN LET g1 == [g EXCEPT !.fanState = state]
         IN  digitalWrite(g1, LED_PIN, Level(state))
    ELSE g

\* mutant: a mode change switches the fan off
tempmon_onModeChange_fanOff(g, newMode, stale) ==
    LET g1 == [g EXCEPT !.currentMode = newMode, !.fanState = FALSE]
        g2 == digitalWrite(g1, LED_PIN, LOW)
    IN  IF stale THEN g2 ELSE [g2 EXCEPT !.systemInfo.mode = newMode]

\* systemInfo.mode still points at the buffer of `mode`: after the String
\* assignment it shows the new text (buffer reused) or is stale (buffer
\* replaced); stale is modelled as the old text
tempmon_onModeChange(g, newMode, stale) ==
    LET g1 == [g EXCEPT !.currentMode = newMode]
    IN  IF stale THEN g1 ELSE [g1 EXCEPT !.systemInfo.mode = newMode]

tempmon_onReset(g) == g

onBlinkTest(g) ==
    LET originalState == g.fanState
        g1 == Blink(g, BlinkCount)
    IN  digitalWrite(g1, LED_PIN, Level(originalState))

-----------------------------------------------------------------------------
(* Light-sensor sketch: callbacks                                          *)

light_onLEDChange(g, state) ==
    LET g1 == [g EXCEPT !.ledState = state]
        g2 == digitalWrite(g1, LED_PIN, Level(state))
    IN  [g2 EXCEPT !.outputs.output1 = g2.ledState]

onAutoLightChange(g, state) ==
    LET g1 == IF state THEN [g EXCEPT !.currentMode = "auto"]
              ELSE [g EXCEPT !.currentMode = "manual"]
    IN  [g1 EXCEPT !.systemInfo.mode = g1.currentMode]

\* mutant: a string that is not a known mode puts the sketch to sleep
light_onModeChange_fallback(g, mode) ==
    LET g1 == IF mode \in {"auto", "manual", "sleep"}
              THEN [g EXCEPT !.currentMode = mode]
              ELSE [g EXCEPT !.currentMode = "sleep"]
    IN  [g1 EXCEPT !.systemInfo.mode = g1.currentMode]

light_onModeChange(g, mode) ==
    LET g1 == [g EXCEPT !.currentMode = mode]
    IN  [g1 EXCEPT !.systemInfo.mode = g1.currentMode]

light_onReset(g) == g

\* one pulse; the level the pin had is not written back
light_onCustomAction(g) ==
    LET g1 == digitalWrite(g, LED_PIN, HIGH)
        g2 == delay(g1, 100)
    IN  digitalWrite(g2, LED_PIN, LOW)

-----------------------------------------------------------------------------
(* Calls through the registered function pointers                          *)

InvokeOutputCallback(g, callback, state) ==
    LET h == Log(g, CallEv(callback, state))
    IN  CASE callback = "onLEDChange" -> onLEDChange(h, state)
          [] callback = "onRelayChange" -> onRelayChange(h, state)
          [] callback = "onFanControl" -> onFanControl(h, state)
          [] callback = "light_onLEDChange" -> light_onLEDChange(h, state)
          [] callback = "onAutoLightChange" -> onAutoLightChange(h, state)

InvokeModeCallback(g, callback, mode, stale) ==
    LET h == Log(g, CallModeEv(callback, mode))
    IN  CASE callback = "onModeChange" -> onModeChange(h, mode)
          [] callback = "tempmon_onModeChange" ->
                 tempmon_onModeChange(h, mode, stale)
          [] callback = "light_onModeChange" -> light_onModeChange(h, mode)

InvokeActionCallback(g, callback) ==
    LET h == Log(g, CallActionEv(callback))
    IN  CASE callback = "onReset" -> onReset(h)
          [] callback = "tempmon_onReset" -> tempmon_onReset(h)
          [] callback = "onCustomAction" -> onCustomAction(h)
          [] callback = "onBlinkTest" -> onBlinkTest(h)
          [] callback = "light_onReset" -> light_onReset(h)
          [] callback = "light_onCustomAction" -> light_onCustomAction(h)

-----------------------------------------------------------------------------
(* WebDashboard: request handlers                                          *)

send(g, code, body) == Log(g, SendEv(code, body))

SuccessDoc == [success |-> TRUE]
InvalidRequest == [error |-> "Invalid request"]

handleRoot(g) == send(g, 200, [html |-> "HTML_PAGE"])

\* mutant: the system object is added without looking at its pointer
StatusDoc_alwaysSystem(g) ==
    LET d == g.dashboard
        keys == {k \in {"sensors", "outputs", "system"} :
                    \/ k = "sensors" /\ d._sensorData # nullptr
                    \/ k = "outputs" /\ d._outputStates # nullptr
                    \/ k = "system"}
    IN  [k \in keys |->
            CASE k = "sensors" -> [value1 |-> g.sensors.value1,
                                   value2 |-> g.sensors.value2,
                                   value3 |-> g.sensors.value3]
              [] k = "outputs" -> [output1 |-> g.outputs.output1,
                                   output2 |-> g.outputs.output2]
              [] k = "system" -> [mode |-> g.systemInfo.mode]]

\* the JSON document: one nested object per data pointer that is set
StatusDoc(g) ==
    LET d == g.dashboard
        keys == {k \in {"sensors", "outputs", "system"} :
                    \/ k = "sensors" /\ d._sensorData # nullptr
                    \/ k = "outputs" /\ d._outputStates # nullptr
                    \/ k = "system" /\ d._systemInfo # nullptr}
    IN  [k \in keys |->
            CASE k = "sensors" -> [value1 |-> g.sensors.value1,
                                   value2 |-> g.sensors.value2,
                                   value3 |-> g.sensors.value3]
              [] k = "outputs" -> [output1 |-> g.outputs.output1,
                                   output2 |-> g.outputs.output2]
              [] k = "system" -> [mode |-> g.systemInfo.mode]]

\* mutant: the snapshot is handed out once, the sensor pointer is dropped
handleStatus_consuming(g) ==
    [send(g, 200, StatusDoc(g)) EXCEPT !.dashboard._sensorData = nullptr]

handleStatus(g) == send(g, 200, StatusDoc(g))

\* mutant: an invalid request is dropped without an answer
handleOutput1_silent(g, r) ==
    IF hasArg(r, "state") /\ g.dashboard._output1Callback # nullptr
    THEN LET state == Bool(arg(r, "state"))
             g1 == InvokeOutputCallback(g, g.dashboard._output1Callback, state)
         IN  send(g1, 200, SuccessDoc)
    ELSE g

handleOutput1(g, r) ==
    IF hasArg(r, "state") /\ g.dashboard._output1Callback # nullptr
    THEN LET state == Bool(arg(r, "state"))
             g1 == InvokeOutputCallback(g, g.dashboard._output1Callback, state)
         IN  send(g1, 200, SuccessDoc)
    ELSE send(g, 400, InvalidRequest)

\* mutant: only the call is guarded by the callback pointer
handleOutput2_unguarded(g, r) ==
    IF hasArg(r, "state")
    THEN LET state == Bool(arg(r, "state"))
             g1 == IF g.dashboard._output2Callback # nullptr
                   THEN InvokeOutputCallback(g, g.dashboard._output2Callback,
                                             state)
                   ELSE g
         IN  send(g1, 200, SuccessDoc)
    ELSE send(g, 400, InvalidRequest)

handleOutput2(g, r) ==
    IF hasArg(r, "state") /\ g.dashboard._output2Callback # nullptr
    THEN LET state == Bool(arg(r, "state"))
             g1 == InvokeOutputCallback(g, g.dashboard._output2Callback, state)
         IN  send(g1, 200, SuccessDoc)
    ELSE send(g, 400, InvalidRequest)

\* mutant: the presence of the parameter is not checked
handleMode_noArgCheck(g, r, stale) ==
    IF g.dashboard._modeCallback # nullptr
    THEN LET mode == arg(r, "mode")
             g1 == InvokeModeCallback(g, g.dashboard._modeCallback, mode, stale)
         IN  send(g1, 200, SuccessDoc)
    ELSE send(g, 400, InvalidRequest)

handleMode(g, r, stale) ==
    IF hasArg(r, "mode") /\ g.dashboard._modeCallback # nullptr
    THEN LET mode == arg(r, "mode")
             g1 == InvokeModeCallback(g, g.dashboard._modeCallback, mode, stale)
         IN  send(g1, 200, SuccessDoc)
    ELSE send(g, 400, InvalidRequest)

\* handleReset, statement by statement
handleReset_callback(g) ==
    IF g.dashboard._resetCallback # nullptr
    THEN InvokeActionCallback(g, g.dashboard._resetCallback)
    ELSE g

\* mutant: the response is left to be sent after the restart
handleReset_unsent(g) == g

handleReset_send(g) == send(g, 200, SuccessDoc)

handleReset_delay(g) == delay(g, 1000)

\* mutant: the restart is missing and the handler returns
ESP_restart_missing(g) == g

\* mutant: the mode is kept in non-volatile storage and restored at boot
ESP_restart_keepMode(g) ==
    [PowerOn(g.sketch) EXCEPT !.trace = Append(g.trace, RestartEv),
                              !.currentMode = g.currentMode]

\* ESP.restart(): the device boots again; the record of what happened stays
ESP_restart(g) ==
    [PowerOn(g.sketch) EXCEPT !.trace = Append(g.trace, RestartEv)]

\* mutant: an unregistered callback is refused as in the other handlers
handleCustom_refusing(g) ==
    IF g.dashboard._customCallback # nullptr
    THEN LET g1 == InvokeActionCallback(g, g.dashboard._customCallback)
         IN  send(g1, 200, [success |-> TRUE,
                            message |-> "Custom action completed"])
    ELSE send(g, 400, InvalidRequest)

handleCustom(g) ==
    LET g1 == IF g.dashboard._customCallback # nullptr
              THEN InvokeActionCallback(g, g.dashboard._customCallback)
              ELSE g
    IN  send(g1, 200, [success |-> TRUE, message |-> "Custom action completed"])

-----------------------------------------------------------------------------
(* Template sketch: setup() and the functions called by loop()             *)

initializeDataStructures(g) ==
    [g EXCEPT !.sensors = [value1 |-> 0, value2 |-> 0, value3 |-> 0],
              !.outputs = [output1 |-> FALSE, output2 |-> FALSE],
              !.systemInfo.mode = g.currentMode]

setup(g) ==
    LET g1 == digitalWrite(g, LED_PIN, LOW)
        g2 == digitalWrite(g1, RELAY_PIN, LOW)
        g3 == initializeDataStructures(g2)
        g4 == begin(g3)
        g5 == onOutput1Change(g4, "onLEDChange")
        g6 == onOutput2Change(g5, "onRelayChange")
        g7 == dashboard_onModeChange(g6, "onModeChange")
        g8 == dashboard_onReset(g7, "onReset")
    IN  dashboard_onCustomAction(g8, "onCustomAction")

readSensors(g, adc) == [g EXCEPT !.sensorValue = adc]

updateDashboardData(g) ==
    LET g1 == [g EXCEPT !.sensors.value1 = g.sensorValue,
                        !.outputs.output1 = g.ledState,
                        !.outputs.output2 = g.relayState,
                        !.systemInfo.mode = g.currentMode]
        g2 == updateSensorData(g1, "&sensors")
        g3 == updateOutputStates(g2, "&outputs")
    IN  updateSystemInfo(g3, "&systemInfo")

SENSOR_ON == 2000
SENSOR_OFF == 1500

\* mutant: no hysteresis, the relay follows the upper threshold
runApplicationLogic_noHysteresis(g) ==
    IF g.currentMode = "auto"
    THEN IF g.sensorValue > SENSOR_ON /\ ~g.relayState
         THEN digitalWrite([g EXCEPT !.relayState = TRUE], RELAY_PIN, HIGH)
         ELSE IF g.sensorValue <= SENSOR_ON /\ g.relayState
              THEN digitalWrite([g EXCEPT !.relayState = FALSE],
                                RELAY_PIN, LOW)
              ELSE g
    ELSE g

\* mutant: the automatic logic runs in every mode but manual
runApplicationLogic_notManual(g) ==
    IF g.currentMode # "manual"
    THEN IF g.sensorValue > SENSOR_ON /\ ~g.relayState
         THEN digitalWrite([g EXCEPT !.relayState = TRUE], RELAY_PIN, HIGH)
         ELSE IF g.sensorValue < SENSOR_OFF /\ g.relayState
              THEN digitalWrite([g EXCEPT !.relayState = FALSE],
                                RELAY_PIN, LOW)
              ELSE g
    ELSE g

runApplicationLogic(g) ==
    IF g.currentMode = "auto"
    THEN IF g.sensorValue > SENSOR_ON /\ ~g.relayState
         THEN digitalWrite([g EXCEPT !.relayState = TRUE], RELAY_PIN, HIGH)
         ELSE IF g.sensorValue < SENSOR_OFF /\ g.relayState
              THEN digitalWrite([g EXCEPT !.relayState = FALSE],
                                RELAY_PIN, LOW)
              ELSE g
    ELSE g

-----------------------------------------------------------------------------
(* Temperature monitor: setup() and the sections of loop()                 *)

\* in tenths of a degree
TEMP_THRESHOLD == 250

\* what dht.readTemperature() / dht.readHumidity() return
NaN == [nan |-> TRUE, v |-> 0]
Reading(v) == [nan |-> FALSE, v |-> v]
isnan(x) == x.nan

TempReadings == {NaN} \cup {Reading(v) : v \in {239, 240, 250, 251}}
HumReadings == {NaN, Reading(500)}

\* dht.computeHeatIndex() belongs to the sensor library: an opaque number
\* determined by its two arguments
computeHeatIndex(t, h) == 1000 * t + h

tempmon_setup(g) ==
    LET g1 == digitalWrite(g, LED_PIN, LOW)
        g2 == [g1 EXCEPT !.systemInfo.mode = g1.currentMode]
        g3 == begin(g2)
        g4 == onOutput1Change(g3, "onFanControl")
        g5 == dashboard_onModeChange(g4, "tempmon_onModeChange")
        g6 == dashboard_onReset(g5, "tempmon_onReset")
    IN  dashboard_onCustomAction(g6, "onBlinkTest")

\* mutant: a failed read keeps the previous values
tempmon_read_keep(g, t, h) ==
    IF isnan(t) \/ isnan(h)
    THEN g
    ELSE [g EXCEPT !.temperature = t.v, !.humidity = h.v,
                   !.sensors.value3 = computeHeatIndex(t.v, h.v)]

\* mutant: a failed read also clears the heat index
tempmon_read_clearIndex(g, t, h) ==
    IF isnan(t) \/ isnan(h)
    THEN [g EXCEPT !.temperature = 0, !.humidity = 0, !.sensors.value3 = 0]
    ELSE [g EXCEPT !.temperature = t.v, !.humidity = h.v,
                   !.sensors.value3 = computeHeatIndex(t.v, h.v)]

\* the block run every 2 seconds
tempmon_read(g, t, h) ==
    IF isnan(t) \/ isnan(h)
    THEN [g EXCEPT !.temperature = 0, !.humidity = 0]
    ELSE [g EXCEPT !.temperature = t.v, !.humidity = h.v,
                   !.sensors.value3 = computeHeatIndex(t.v, h.v)]

\* mutant: the fan logic runs in every mode
tempmon_auto_anyMode(g) ==
    IF g.temperature > TEMP_THRESHOLD /\ ~g.fanState
    THEN digitalWrite([g EXCEPT !.fanState = TRUE], LED_PIN, HIGH)
    ELSE IF g.temperature < TEMP_THRESHOLD - 10 /\ g.fanState
         THEN digitalWrite([g EXCEPT !.fanState = FALSE], LED_PIN, LOW)
         ELSE g

tempmon_auto(g) ==
    IF g.currentMode = "auto"
    THEN IF g.temperature > TEMP_THRESHOLD /\ ~g.fanState
         THEN digitalWrite([g EXCEPT !.fanState = TRUE], LED_PIN, HIGH)
         ELSE IF g.temperature < TEMP_THRESHOLD - 10 /\ g.fanState
              THEN digitalWrite([g EXCEPT !.fanState = FALSE], LED_PIN, LOW)
              ELSE g
    ELSE g

tempmon_update(g) ==
    LET g1 == [g EXCEPT !.sensors.value1 = g.temperature,
                        !.sensors.value2 = g.humidity,
                        !.outputs.output1 = g.fanState,
                        !.systemInfo.mode = g.currentMode]
        g2 == updateSensorData(g1, "&sensors")
        g3 == updateOutputStates(g2, "&outputs")
    IN  updateSystemInfo(g3, "&systemInfo")

-----------------------------------------------------------------------------
(* Light-sensor sketch: setup() and the functions called by loop()         *)

LIGHT_MIN_ADC == 0
LIGHT_MAX_ADC == 4095
LIGHT_THRESHOLD_DARK == 3000
LIGHT_THRESHOLD_DIM == 2000
LIGHT_THRESHOLD_BRIGHT == 500

\* averages of the sample window that are tried
LightAverages == {499, 1999, 2000, 3000}

\* integer division of C: the quotient is truncated towards zero
CDiv(a, b) ==
    LET q == (IF a < 0 THEN -a ELSE a) \div (IF b < 0 THEN -b ELSE b)
    IN  IF (a < 0) = (b < 0) THEN q ELSE -q

\* long map(long x, long in_min, long in_max, long out_min, long out_max)
map(x, in_min, in_max, out_min, out_max) ==
    CDiv((x - in_min) * (out_max - out_min), in_max - in_min) + out_min

constrain(x, lo, hi) == IF x < lo THEN lo ELSE IF x > hi THEN hi ELSE x

light_initializeDataStructures(g) ==
    [g EXCEPT !.sensors.value1 = 0, !.sensors.value2 = 0,
              !.sensors.value3 = 0,
              !.outputs.output1 = FALSE, !.outputs.output2 = TRUE,
              !.systemInfo.mode = g.currentMode]

light_setup(g) ==
    LET g1 == digitalWrite(g, LED_PIN, LOW)
        g2 == light_initializeDataStructures(g1)
        g3 == begin(g2)
        g4 == onOutput1Change(g3, "light_onLEDChange")
        g5 == onOutput2Change(g4, "onAutoLightChange")
        g6 == dashboard_onModeChange(g5, "light_onModeChange")
        g7 == dashboard_onReset(g6, "light_onReset")
    IN  dashboard_onCustomAction(g7, "light_onCustomAction")

\* mutant: the range is mapped without the inversion
readLightSensor_notInverted(g, avg) ==
    LET g1 == [g EXCEPT !.lightRawValue = avg]
        percent == map(g1.lightRawValue, LIGHT_MIN_ADC, LIGHT_MAX_ADC, 0, 100)
        g2 == [g1 EXCEPT !.lightPercent = constrain(percent, 0, 100)]
    IN  [g2 EXCEPT !.lightStatus =
            IF g2.lightRawValue >= LIGHT_THRESHOLD_DARK THEN "PIMEA"
            ELSE IF g2.lightRawValue >= LIGHT_THRESHOLD_DIM THEN "HIMMEA"
            ELSE IF g2.lightRawValue >= LIGHT_THRESHOLD_BRIGHT THEN "VALOISA"
            ELSE "KIRKAS"]

\* avg is sum / NUM_SAMPLES of the window after the new sample is stored
readLightSensor(g, avg) ==
    LET g1 == [g EXCEPT !.lightRawValue = avg]
        percent == map(g1.lightRawValue, LIGHT_MAX_ADC, LIGHT_MIN_ADC, 0, 100)
        g2 == [g1 EXCEPT !.lightPercent = constrain(percent, 0, 100)]
    IN  [g2 EXCEPT !.lightStatus =
            IF g2.lightRawValue >= LIGHT_THRESHOLD_DARK THEN "PIMEA"
            ELSE IF g2.lightRawValue >= LIGHT_THRESHOLD_DIM THEN "HIMMEA"
            ELSE IF g2.lightRawValue >= LIGHT_THRESHOLD_BRIGHT THEN "VALOISA"
            ELSE "KIRKAS"]

\* mutant: the LED goes on above the threshold, not at it
runLightControl_above(g) ==
    IF g.currentMode = "auto"
    THEN LET shouldLedBeOn == g.lightRawValue > LIGHT_THRESHOLD_DIM
         IN  IF shouldLedBeOn /\ ~g.ledState
             THEN LET g1 == [g EXCEPT !.ledState = TRUE]
                      g2 == digitalWrite(g1, LED_PIN, HIGH)
                  IN  [g2 EXCEPT !.outputs.output1 = TRUE]
             ELSE IF ~shouldLedBeOn /\ g.ledState
                  THEN LET g1 == [g EXCEPT !.ledState = FALSE]
                           g2 == digitalWrite(g1, LED_PIN, LOW)
                       IN  [g2 EXCEPT !.outputs.output1 = FALSE]
                  ELSE g
    ELSE g

runLightControl(g) ==
    IF g.currentMode = "auto"
    THEN LET shouldLedBeOn == g.lightRawValue >= LIGHT_THRESHOLD_DIM
         IN  IF shouldLedBeOn /\ ~g.ledState
             THEN LET g1 == [g EXCEPT !.ledState = TRUE]
                      g2 == digitalWrite(g1, LED_PIN, HIGH)
                  IN  [g2 EXCEPT !.outputs.output1 = TRUE]
             ELSE IF ~shouldLedBeOn /\ g.ledState
                  THEN LET g1 == [g EXCEPT !.ledState = FALSE]
                           g2 == digitalWrite(g1, LED_PIN, LOW)
                       IN  [g2 EXCEPT !.outputs.output1 = FALSE]
                  ELSE g
    ELSE g

\* mutant: output 2 is reported on in every mode but manual
light_updateDashboardData_notManual(g) ==
    LET g1 == [g EXCEPT !.sensors.value1 = g.lightPercent,
                        !.sensors.value2 = g.lightRawValue,
                        !.sensors.value3 = 0,
                        !.outputs.output1 = g.ledState,
                        !.outputs.output2 = (g.currentMode # "manual"),
                        !.systemInfo.mode = g.currentMode]
        g2 == updateSensorData(g1, "&sensors")
        g3 == updateOutputStates(g2, "&outputs")
    IN  updateSystemInfo(g3, "&systemInfo")

light_updateDashboardData(g) ==
    LET g1 == [g EXCEPT !.sensors.value1 = g.lightPercent,
                        !.sensors.value2 = g.lightRawValue,
                        !.sensors.value3 = 0,
                        !.outputs.output1 = g.ledState,
                        !.outputs.output2 = (g.currentMode = "auto"),
                        !.systemInfo.mode = g.currentMode]
        g2 == updateSensorData(g1, "&sensors")
        g3 == updateOutputStates(g2, "&outputs")
    IN  updateSystemInfo(g3, "&systemInfo")

-----------------------------------------------------------------------------
(* Monolithic sketch                                                       *)

mono_setup(g) ==
    LET g1 == digitalWrite(g, LED_PIN, LOW)
    IN  digitalWrite(g1, RELAY_PIN, LOW)

\* mutant: the hysteresis of the template
mono_auto_hysteresis(g) ==
    IF g.currentMode = "auto"
    THEN IF g.sensorValue > SENSOR_ON /\ ~g.relayState
         THEN [digitalWrite(g, RELAY_PIN, HIGH) EXCEPT !.relayState = TRUE]
         ELSE IF g.sensorValue < SENSOR_OFF /\ g.relayState
              THEN [digitalWrite(g, RELAY_PIN, LOW)
                       EXCEPT !.relayState = FALSE]
              ELSE g
    ELSE g

mono_auto(g) ==
    IF g.currentMode = "auto"
    THEN IF g.sensorValue > SENSOR_ON
         THEN [digitalWrite(g, RELAY_PIN, HIGH) EXCEPT !.relayState = TRUE]
         ELSE [digitalWrite(g, RELAY_PIN, LOW) EXCEPT !.relayState = FALSE]
    ELSE g

mono_handleRoot(g) == send(g, 200, [html |-> "INDEX_HTML"])

mono_handleStatus(g) ==
    send(g, 200, [sensor |-> g.sensorValue, led |-> g.ledState,
                  relay |-> g.relayState, mode |-> g.currentMode])

handleLED(g, r) ==
    IF hasArg(r, "state")
    THEN LET state == Bool(arg(r, "state"))
             g1 == [g EXCEPT !.ledState = state]
             g2 == digitalWrite(g1, LED_PIN, Level(state))
         IN  send(g2, 200, [success |-> TRUE, led |-> g2.ledState])
    ELSE send(g, 400, [error |-> "Missing state parameter"])

handleRelay(g, r) ==
    IF hasArg(r, "state")
    THEN LET state == Bool(arg(r, "state"))
             g1 == IF g.currentMode = "manual"
                   THEN digitalWrite([g EXCEPT !.relayState = state],
                                     RELAY_PIN, Level(state))
                   ELSE g
         IN  send(g1, 200, [success |-> TRUE, relay |-> g1.relayState])
    ELSE send(g, 400, [error |-> "Missing state parameter"])

mono_handleMode(g, r) ==
    IF hasArg(r, "mode")
    THEN LET g1 == [g EXCEPT !.currentMode = arg(r, "mode")]
         IN  send(g1, 200, [success |-> TRUE, mode |-> g1.currentMode])
    ELSE send(g, 400, [error |-> "Missing mode parameter"])

mono_handleReset_send(g) ==
    send(g, 200, [success |-> TRUE, message |-> "Resetting in 3 seconds..."])

mono_handleReset_delay(g) == delay(g, 3000)

-----------------------------------------------------------------------------
(* The thread                                                              *)

BootPc(s) == IF s = "library" THEN "client" ELSE "setup"

\* the statement after dashboard.loop() / server.handleClient()
AfterPoll(s) == IF s = "library" THEN "returned" ELSE "read"

\* mutant: requests are served wherever the thread is (an asynchronous
\* server)
AtPoll_anywhere ==
    \/ pc \in {"poll", "read", "update", "logic"}
    \/ pc = "client" /\ dashboard._server # nullptr

\* the thread is at the call of dashboard.loop() / server.handleClient()
AtPoll ==
    \/ pc = "poll"
    \/ pc = "client" /\ dashboard._server # nullptr

\* leaving the handler: the record of the last request is dropped
Leave(g) == [g EXCEPT !.trace = <<>>]

\* the handler answered 200
Accepted(g) == g.trace[Len(g.trace)].code = 200

\* sentMode after the handler of r has turned the state into g
SentModeAfter(r, g) ==
    IF r.route = "/api/mode" /\ Accepted(g) THEN arg(r, "mode")
    ELSE IF g.currentMode # currentMode THEN "none"
         ELSE sentMode

\* the sketches whose loop() runs read, update, logic in this order
UpdateFirst == {"template", "light"}

Init ==
    /\ sketch \in Sketches
    /\ pc = BootPc(sketch)
    /\ req = NoRequest
    /\ dashboard = PowerOn(sketch).dashboard
    /\ currentMode = PowerOn(sketch).currentMode
    /\ ledState = PowerOn(sketch).ledState
    /\ relayState = PowerOn(sketch).relayState
    /\ fanState = PowerOn(sketch).fanState
    /\ sensorValue = PowerOn(sketch).sensorValue
    /\ temperature = PowerOn(sketch).temperature
    /\ humidity = PowerOn(sketch).humidity
    /\ pins = PowerOn(sketch).pins
    /\ sensors = PowerOn(sketch).sensors
    /\ outputs = PowerOn(sketch).outputs
    /\ systemInfo = PowerOn(sketch).systemInfo
    /\ lightRawValue = PowerOn(sketch).lightRawValue
    /\ lightPercent = PowerOn(sketch).lightPercent
    /\ lightStatus = PowerOn(sketch).lightStatus
    /\ trace = PowerOn(sketch).trace
    /\ sentMode = "none"
    /\ dhtRead = "none"

\* setup() of the flashed sketch
Setup ==
    /\ pc = "setup"
    /\ Commit(Leave(CASE sketch = "template" -> setup(Cur)
                      [] sketch = "tempmon" -> tempmon_setup(Cur)
                      [] sketch = "light" -> light_setup(Cur)
                      [] sketch = "monolithic" -> mono_setup(Cur)))
    /\ pc' = "poll"
    /\ req' = NoRequest
    /\ UNCHANGED <<sketch, sentMode, dhtRead>>

\* handleClient() with no request pending
NoClient ==
    /\ AtPoll
    /\ Commit(Leave(Cur))
    /\ pc' = AfterPoll(sketch)
    /\ req' = NoRequest
    /\ dhtRead' = "none"
    /\ UNCHANGED <<sketch, sentMode>>

\* handleClient() dispatches r to a handler of the WebDashboard
Handle(r, g) ==
    /\ AtPoll
    /\ sketch \in DashboardSketches
    /\ r.route \in DashboardRoutes \ {"/api/reset"}
    /\ r.args \in ArgsFor(r.route)
    /\ Commit(g)
    /\ pc' = AfterPoll(sketch)
    /\ req' = r
    /\ sentMode' = SentModeAfter(r, g)
    /\ dhtRead' = "none"
    /\ UNCHANGED sketch

HandleRoot ==
    LET r == Request("/", NoArgs)
    IN  Handle(r, handleRoot(Leave(Cur)))

HandleStatus ==
    LET r == Request("/api/status", NoArgs)
    IN  Handle(r, handleStatus(Leave(Cur)))

HandleOutput1 ==
    \E a \in ArgsFor("/api/output1") :
        LET r == Request("/api/output1", a)
        IN  Handle(r, handleOutput1(Leave(Cur), r))

HandleOutput2 ==
    \E a \in ArgsFor("/api/output2") :
        LET r == Request("/api/output2", a)
        IN  Handle(r, handleOutput2(Leave(Cur), r))

\* only the temperature monitor leaves systemInfo.mode behind
StaleChoices(s) == IF s = "tempmon" THEN BOOLEAN ELSE {FALSE}

HandleMode ==
    \E a \in ArgsFor("/api/mode"), stale \in StaleChoices(sketch) :
        LET r == Request("/api/mode", a)
        IN  Handle(r, handleMode(Leave(Cur), r, stale))

HandleCustom ==
    LET r == Request("/api/custom", NoArgs)
    IN  Handle(r, handleCustom(Leave(Cur)))

\* handleReset: the callback, then ...
HandleReset ==
    /\ AtPoll
    /\ sketch \in DashboardSketches
    /\ Commit(handleReset_callback(Leave(Cur)))
    /\ pc' = "reset_send"
    /\ req' = Request("/api/reset", NoArgs)
    /\ dhtRead' = "none"
    /\ UNCHANGED <<sketch, sentMode>>

\* ... the response, then ...
ResetSend ==
    /\ pc = "reset_send"
    /\ Commit(handleReset_send(Cur))
    /\ pc' = "reset_delay"
    /\ UNCHANGED <<sketch, req, sentMode, dhtRead>>

\* ... the delay, then ...
ResetDelay ==
    /\ pc = "reset_delay"
    /\ Commit(IF sketch = "monolithic" THEN mono_handleReset_delay(Cur)
              ELSE handleReset_delay(Cur))
    /\ pc' = "reset_restart"
    /\ UNCHANGED <<sketch, req, sentMode, dhtRead>>

\* ... ESP.restart()
ResetRestart ==
    /\ pc = "reset_restart"
    /\ Commit(ESP_restart(Cur))
    /\ pc' = BootPc(sketch)
    /\ sentMode' = "none"
    /\ UNCHANGED <<sketch, req, dhtRead>>

\* handleClient() dispatches r to a handler of the monolithic sketch
MonoHandle(r, g) ==
    /\ pc = "poll"
    /\ sketch = "monolithic"
    /\ r.route \in MonoRoutes \ {"/api/reset"}
    /\ r.args \in ArgsFor(r.route)
    /\ Commit(g)
    /\ pc' = "read"
    /\ req' = r
    /\ sentMode' = SentModeAfter(r, g)
    /\ dhtRead' = "none"
    /\ UNCHANGED sketch

MonoHandleRoot ==
    LET r == Request("/", NoArgs)
    IN  MonoHandle(r, mono_handleRoot(Leave(Cur)))

MonoHandleStatus ==
    LET r == Request("/api/status", NoArgs)
    IN  MonoHandle(r, mono_handleStatus(Leave(Cur)))

MonoHandleLED ==
    \E a \in ArgsFor("/api/led") :
        LET r == Request("/api/led", a)
        IN  MonoHandle(r, handleLED(Leave(Cur), r))

MonoHandleRelay ==
    \E a \in ArgsFor("/api/relay") :
        LET r == Request("/api/relay", a)
        IN  MonoHandle(r, handleRelay(Leave(Cur), r))

MonoHandleMode ==
    \E a \in ArgsFor("/api/mode") :
        LET r == Request("/api/mode", a)
        IN  MonoHandle(r, mono_handleMode(Leave(Cur), r))

\* handleReset of the monolithic sketch starts with the response
MonoHandleReset ==
    /\ pc = "poll"
    /\ sketch = "monolithic"
    /\ Commit(mono_handleReset_send(Leave(Cur)))
    /\ pc' = "reset_delay"
    /\ req' = Request("/api/reset", NoArgs)
    /\ dhtRead' = "none"
    /\ UNCHANGED <<sketch, sentMode>>

\* the periodic sensor block of loop(): due, with what the sensor returns
ReadSensors ==
    /\ pc = "read"
    /\ \/ /\ sketch \in {"template", "monolithic"}
          /\ \E adc \in AdcValues : Commit(Leave(readSensors(Cur, adc)))
          /\ UNCHANGED dhtRead
       \/ /\ sketch = "tempmon"
          /\ \E t \in TempReadings, h \in HumReadings :
                /\ Commit(Leave(tempmon_read(Cur, t, h)))
                /\ dhtRead' = IF isnan(t) \/ isnan(h) THEN "failed"
                              ELSE "ok"
       \/ /\ sketch = "light"
          /\ \E avg \in LightAverages :
                Commit(Leave(readLightSensor(Cur, avg)))
          /\ UNCHANGED dhtRead
    /\ pc' = IF sketch \in UpdateFirst THEN "update" ELSE "logic"
    /\ req' = NoRequest
    /\ UNCHANGED <<sketch, sentMode>>

\* the periodic sensor block of loop(): not due
SkipRead ==
    /\ pc = "read"
    /\ Commit(Leave(Cur))
    /\ pc' = IF sketch \in UpdateFirst THEN "update" ELSE "logic"
    /\ req' = NoRequest
    /\ UNCHANGED <<sketch, sentMode, dhtRead>>

\* updateDashboardData() / the 'Update dashboard' section of loop()
UpdateDashboard ==
    /\ pc = "update"
    /\ Commit(Leave(CASE sketch = "template" -> updateDashboardData(Cur)
                      [] sketch = "tempmon" -> tempmon_update(Cur)
                      [] sketch = "light" -> light_updateDashboardData(Cur)))
    /\ pc' = IF sketch \in UpdateFirst THEN "logic" ELSE "poll"
    /\ req' = NoRequest
    /\ UNCHANGED <<sketch, sentMode, dhtRead>>

\* the periodic dashboard update of the light-sensor sketch: not due (it was
\* due in the first iteration after setup())
SkipUpdate ==
    /\ pc = "update"
    /\ sketch = "light"
    /\ dashboard._systemInfo # nullptr
    /\ Commit(Leave(Cur))
    /\ pc' = "logic"
    /\ req' = NoRequest
    /\ UNCHANGED <<sketch, sentMode, dhtRead>>

\* runApplicationLogic() / the auto-mode section of loop()
ApplicationLogic ==
    /\ pc = "logic"
    /\ Commit(Leave(CASE sketch = "template" -> runApplicationLogic(Cur)
                      [] sketch = "tempmon" -> tempmon_auto(Cur)
                      [] sketch = "light" -> runLightControl(Cur)
                      [] sketch = "monolithic" -> mono_auto(Cur)))
    /\ pc' = IF sketch = "tempmon" THEN "update" ELSE "poll"
    /\ req' = NoRequest
    /\ UNCHANGED <<sketch, sentMode, dhtRead>>

\* a client of the class calls one public method
ClientCall(g) ==
    /\ pc = "client"
    /\ sketch = "library"
    /\ g # Cur
    /\ Commit(g)
    /\ req' = NoRequest
    /\ UNCHANGED <<sketch, pc, sentMode, dhtRead>>

\* dashboard.loop() returns to the client
ClientReturn ==
    /\ pc = "returned"
    /\ Commit(Leave(Cur))
    /\ pc' = "client"
    /\ req' = NoRequest
    /\ UNCHANGED <<sketch, sentMode, dhtRead>>

ClientBegin ==
    /\ dashboard._server = nullptr
    /\ ClientCall(begin(Leave(Cur)))

ClientUpdateSensorData == ClientCall(updateSensorData(Leave(Cur), "&sensors"))
ClientUpdateOutputStates ==
    ClientCall(updateOutputStates(Leave(Cur), "&outputs"))
ClientUpdateSystemInfo ==
    ClientCall(updateSystemInfo(Leave(Cur), "&systemInfo"))
ClientOnOutput1Change == ClientCall(onOutput1Change(Leave(Cur), "onLEDChange"))
ClientOnOutput2Change ==
    ClientCall(onOutput2Change(Leave(Cur), "onRelayChange"))
ClientOnModeChange ==
    ClientCall(dashboard_onModeChange(Leave(Cur), "onModeChange"))
ClientOnReset == ClientCall(dashboard_onReset(Leave(Cur), "onReset"))
ClientOnCustomAction ==
    ClientCall(dashboard_onCustomAction(Leave(Cur), "onCustomAction"))

Next ==
    \/ Setup
    \/ NoClient
    \/ HandleRoot
    \/ HandleStatus
    \/ HandleOutput1
    \/ HandleOutput2
    \/ HandleMode
    \/ HandleCustom
    \/ HandleReset
    \/ ResetSend
    \/ ResetDelay
    \/ ResetRestart
    \/ MonoHandleRoot
    \/ MonoHandleStatus
    \/ MonoHandleLED
    \/ MonoHandleRelay
    \/ MonoHandleMode
    \/ MonoHandleReset
    \/ SkipRead
    \/ ReadSensors
    \/ SkipUpdate
    \/ UpdateDashboard
    \/ ApplicationLogic
    \/ ClientReturn
    \/ ClientBegin
    \/ ClientUpdateSensorData
    \/ ClientUpdateOutputStates
    \/ ClientUpdateSystemInfo
    \/ ClientOnOutput1Change
    \/ ClientOnOutput2Change
    \/ ClientOnModeChange
    \/ ClientOnReset
    \/ ClientOnCustomAction

Spec == Init /\ [][Next]_vars

\* the processor keeps executing the thread
FairSpec == Spec /\ WF_vars(Next)

TypeOK ==
    /\ sketch \in Sketches
    /\ pc \in {"setup", "poll", "read", "update", "logic", "client",
               "returned",
               "reset_send", "reset_delay", "reset_restart"}
    /\ ledState \in BOOLEAN /\ relayState \in BOOLEAN /\ fanState \in BOOLEAN
    /\ currentMode \in ModeArgs
    /\ sentMode \in ModeArgs \cup {"none"}
    /\ dhtRead \in {"none", "ok", "failed"}
    /\ lightRawValue \in 0..LIGHT_MAX_ADC
    /\ lightPercent \in 0..100
    /\ \A p \in DOMAIN pins : pins[p] \in {HIGH, LOW}

-----------------------------------------------------------------------------
(* readLightSensor() on its own: one call on a window of samples, from the *)
(* state in which the first iteration of loop() reaches the sensor block   *)

NUM_SAMPLES == 10

AdcRange == LIGHT_MIN_ADC..LIGHT_MAX_ADC

\* for (i = 0; i < NUM_SAMPLES; i++) sum += lightSamples[i];
RECURSIVE SumTo(_, _)
SumTo(samples, n) ==
    IF n = 0 THEN 0 ELSE samples[n] + SumTo(samples, n - 1)

\* lightRawValue = sum / NUM_SAMPLES
Average(samples) == CDiv(SumTo(samples, NUM_SAMPLES), NUM_SAMPLES)

\* the windows that are tried: ten equal samples of any value, and the same
\* with one sample at either end of the ADC range
Windows ==
    {[i \in 1..NUM_SAMPLES |-> v] : v \in AdcRange}
    \cup {[i \in 1..NUM_SAMPLES |-> IF i = 1 THEN u ELSE v] :
             u \in {LIGHT_MIN_ADC, LIGHT_MAX_ADC}, v \in AdcRange}

LightBoot == Leave(light_setup(PowerOn("light")))

LightInit ==
    /\ sketch = "light"
    /\ pc = "read"
    /\ req = NoRequest
    /\ dashboard = LightBoot.dashboard
    /\ currentMode = LightBoot.currentMode
    /\ ledState = LightBoot.ledState
    /\ relayState = LightBoot.relayState
    /\ fanState = LightBoot.fanState
    /\ sensorValue = LightBoot.sensorValue
    /\ temperature = LightBoot.temperature
    /\ humidity = LightBoot.humidity
    /\ pins = LightBoot.pins
    /\ sensors = LightBoot.sensors
    /\ outputs = LightBoot.outputs
    /\ systemInfo = LightBoot.systemInfo
    /\ lightRawValue = LightBoot.lightRawValue
    /\ lightPercent = LightBoot.lightPercent
    /\ lightStatus = LightBoot.lightStatus
    /\ trace = LightBoot.trace
    /\ sentMode = "none"
    /\ dhtRead = "none"

\* the sensor block, with the window the new sample completes
LightRead ==
    /\ pc = "read"
    /\ sketch = "light"
    /\ \E w \in Windows : Commit(Leave(readLightSensor(Cur, Average(w))))
    /\ pc' = "update"
    /\ req' = NoRequest
    /\ UNCHANGED <<sketch, sentMode, dhtRead>>

LightSpec == LightInit /\ [][LightRead]_vars

-----------------------------------------------------------------------------
(* Properties                                                              *)

\* this step is handleClient() dispatching a request to `route`
HandlerStep(route) == AtPoll /\ req'.route = route

\* the callback registered for a control route of the WebDashboard
CallbackFor(route) ==
    CASE route = "/api/output1" -> dashboard._output1Callback
      [] route = "/api/output2" -> dashboard._output2Callback
      [] route = "/api/mode" -> dashboard._modeCallback
      [] route = "/api/reset" -> dashboard._resetCallback
      [] route = "/api/custom" -> dashboard._customCallback

\* the parameter a control route reads
ParamOf(route) == IF route = "/api/mode" THEN "mode" ELSE "state"

\* C1: for an output endpoint with a callback registered, a request with
\* state=0 or state=1 invokes that callback exactly once, with false for 0
\* and true for 1, and is answered with one HTTP 200 carrying success=true.
C1_OutputCallbackOnce ==
    \A route \in {"/api/output1", "/api/output2"} :
        ( /\ sketch \in DashboardSketches
          /\ req.route = route
          /\ CallbackFor(route) # nullptr
          /\ hasArg(req, "state")
          /\ req.args["state"] \in {"0", "1"} )
        => /\ Len(Calls(trace)) = 1
           /\ Calls(trace)[1].fn = CallbackFor(route)
           /\ req.args["state"] = "0" => Calls(trace)[1].arg = FALSE
           /\ req.args["state"] = "1" => Calls(trace)[1].arg = TRUE
           /\ Len(Sends(trace)) = 1
           /\ Sends(trace)[1].code = 200
           /\ Sends(trace)[1].body = [success |-> TRUE]

\* the relay callback of the template was invoked once with true
C1_Witness ==
    /\ sketch = "template"
    /\ req = Request("/api/output2", Arg("state", "1"))
    /\ Calls(trace) = <<CallEv("onRelayChange", TRUE)>>
    /\ Sends(trace) = <<SendEv(200, [success |-> TRUE])>>

\* C2: a control request (/api/output1, /api/output2, /api/mode) to an
\* endpoint with no callback registered is answered with HTTP 400 and an
\* error payload, invokes no callback and changes neither the dashboard nor
\* the application state.
C2_NoCallbackIs400 ==
    [][ \A route \in {"/api/output1", "/api/output2", "/api/mode"} :
          ( /\ sketch \in DashboardSketches
            /\ HandlerStep(route)
            /\ CallbackFor(route) = nullptr )
          => /\ Len(Sends(trace')) = 1
             /\ Sends(trace')[1].code = 400
             /\ "error" \in DOMAIN Sends(trace')[1].body
             /\ Calls(trace') = <<>>
             /\ UNCHANGED progVars ]_vars

\* a mode request with its parameter reached a dashboard without a mode
\* callback and was refused
C2_Witness ==
    /\ req = Request("/api/mode", Arg("mode", "manual"))
    /\ dashboard._modeCallback = nullptr
    /\ Sends(trace) = <<SendEv(400, [error |-> "Invalid request"])>>
    /\ currentMode = "auto"

\* the control routes of a sketch and the parameter each one reads
ControlRoutes(s) ==
    IF s = "monolithic" THEN {"/api/led", "/api/relay", "/api/mode"}
    ELSE {"/api/output1", "/api/output2", "/api/mode"}

\* a request without the parameter its route reads has just been refused
RefusedForMissingParam ==
    /\ req.route \in ControlRoutes(sketch)
    /\ ~hasArg(req, ParamOf(req.route))
    /\ pc = AfterPoll(sketch)

\* C3: a request to an output route without `state`, or to /api/mode
\* without `mode`, is answered with HTTP 400 even when the callback is
\* registered; no callback is invoked, no state changes, and the thread goes
\* on to poll for the next request.
C3_MissingParamIs400 ==
    /\ [][ \A route \in ControlRoutes(sketch) :
             ( /\ HandlerStep(route)
               /\ ~hasArg(req', ParamOf(route)) )
             => /\ Len(Sends(trace')) = 1
                /\ Sends(trace')[1].code = 400
                /\ "error" \in DOMAIN Sends(trace')[1].body
                /\ Calls(trace') = <<>>
                /\ UNCHANGED progVars
                /\ pc' = AfterPoll(sketch) ]_vars
    /\ RefusedForMissingParam ~> AtPoll

\* the template, with its relay callback registered, refused a request
\* without `state`
C3_Witness ==
    /\ sketch = "template"
    /\ req = Request("/api/output2", NoArgs)
    /\ dashboard._output2Callback = "onRelayChange"
    /\ Sends(trace) = <<SendEv(400, [error |-> "Invalid request"])>>

\* the keys /api/status must report: one per data pointer that is set
ExpectedStatusKeys ==
    (IF dashboard._sensorData # nullptr THEN {"sensors"} ELSE {})
    \cup (IF dashboard._outputStates # nullptr THEN {"outputs"} ELSE {})
    \cup (IF dashboard._systemInfo # nullptr THEN {"system"} ELSE {})

C4_WitnessEmpty ==
    /\ sketch = "template"
    /\ req.route = "/api/status"
    /\ ExpectedStatusKeys = {}
    /\ Sends(trace) = <<SendEv(200, NoArgs)>>

\* the thread is inside a reset handler, past its first statement
InReset == pc \in {"reset_send", "reset_delay", "reset_restart"}

\* the device has just restarted out of a reset handler
Restarted ==
    /\ pc = BootPc(sketch)
    /\ trace # <<>>
    /\ trace[Len(trace)] = RestartEv

\* C5: on /api/reset the reset callback (if registered) is invoked, then the
\* HTTP 200 success response is sent, then the fixed delay elapses, then the
\* device restarts: no response after the restart, no restart before the
\* response.
C5_ResetOrder ==
    req.route = "/api/reset" =>
        LET c == FirstOf(trace, "call")
            s == FirstOf(trace, "send")
            d == FirstOf(trace, "delay")
            x == FirstOf(trace, "restart")
        IN  /\ InReset \/ Restarted
            \* the callback, if registered, is the first thing that happens
            /\ (InReset /\ sketch \in DashboardSketches
                        /\ dashboard._resetCallback # nullptr)
                => (c = 1 /\ Len(Calls(trace)) = 1
                          /\ trace[1].fn = dashboard._resetCallback)
            /\ c > 0 => c = 1
            \* then one success response
            /\ pc # "reset_send" => s = c + 1
            /\ s > 0 => /\ Len(Sends(trace)) = 1
                        /\ trace[s].code = 200
                        /\ trace[s].body.success = TRUE
            \* then the delay
            /\ pc \notin {"reset_send", "reset_delay"} => d = s + 1
            /\ d > 0 => s > 0 /\ s < d
            \* then the restart, and nothing after it
            /\ Restarted => x = d + 1
            /\ x > 0 => d > 0 /\ x = Len(trace)

\* restarted after callback, response and delay, in this order
C5_Witness ==
    /\ sketch = "template"
    /\ Restarted
    /\ trace = <<CallActionEv("onReset"), SendEv(200, [success |-> TRUE]),
                 DelayEv(1000), RestartEv>>

\* C6: every /api/reset request, with or without a reset callback, is
\* followed by a restart of the device, and from the start of the reset
\* handler to the restart no other handler and no step of the application
\* loop runs: the thread stays in the handler and nothing but the record of
\* the handler changes.
C6_ResetAlwaysRestarts ==
    /\ (req.route = "/api/reset" /\ InReset) ~> Restarted
    /\ [][ (HandlerStep("/api/reset") \/ InReset)
           => /\ req'.route = "/api/reset"
              /\ InReset' \/ Restarted'
              /\ InReset' => UNCHANGED progVars ]_vars

\* a reset request without a reset callback is about to restart the device
C6_Witness ==
    /\ sketch = "library"
    /\ pc = "reset_restart"
    /\ Calls(trace) = <<>>
    /\ Len(Sends(trace)) = 1

\* C7: /api/custom is always answered with HTTP 200 success; a registered
\* custom callback is invoked exactly once, before the response; with none
\* registered no callback runs and no state changes.
C7_CustomAlwaysSucceeds ==
    [][ (sketch \in DashboardSketches /\ HandlerStep("/api/custom"))
        => LET c == FirstOf(trace', "call")
               s == FirstOf(trace', "send")
           IN  /\ Len(Sends(trace')) = 1
               /\ trace'[s].code = 200
               /\ trace'[s].body.success = TRUE
               /\ s = Len(trace')
               /\ dashboard._customCallback # nullptr
                    => /\ Calls(trace') =
                            <<CallActionEv(dashboard._customCallback)>>
                       /\ c = 1 /\ c < s
               /\ dashboard._customCallback = nullptr
                    => /\ Calls(trace') = <<>>
                       /\ UNCHANGED progVars ]_vars

\* a custom request answered with success although no callback is registered
C7_Witness ==
    /\ req.route = "/api/custom"
    /\ dashboard._customCallback = nullptr
    /\ trace = <<SendEv(200, [success |-> TRUE,
                              message |-> "Custom action completed"])>>

\* the output a sketch drives on its own in auto mode: its state variable,
\* its pin, the value it monitors and the two thresholds
AutoOut(s) == IF s = "tempmon" THEN fanState ELSE relayState
AutoPin(s) == IF s = "tempmon" THEN LED_PIN ELSE RELAY_PIN
Monitored(s) == IF s = "tempmon" THEN temperature ELSE sensorValue
Upper(s) == IF s = "tempmon" THEN TEMP_THRESHOLD ELSE SENSOR_ON
Lower(s) == IF s = "tempmon" THEN TEMP_THRESHOLD - 10 ELSE SENSOR_OFF

\* C8: in auto mode of the template and of the temperature monitor, with no
\* mode change in between, a value above the upper threshold turns the
\* output on, the output then stays on until the value is below the lower
\* threshold, and a value between the thresholds never changes the output.
\* (After a restart the monitored variable is 0 again, below the lower
\* threshold.)
C8_AutoHysteresis ==
    [][ ( /\ sketch \in {"template", "tempmon"}
          /\ currentMode = "auto"
          /\ currentMode' = "auto" )
        => /\ (~AutoOut(sketch) /\ AutoOut(sketch)')
                => Monitored(sketch)' > Upper(sketch)
           /\ (AutoOut(sketch) /\ ~AutoOut(sketch)')
                => Monitored(sketch)' < Lower(sketch)
           /\ pins'[AutoPin(sketch)] = Level(AutoOut(sketch)')
           /\ pc = "logic"
                => /\ Monitored(sketch) > Upper(sketch) => AutoOut(sketch)'
                   /\ Monitored(sketch) < Lower(sketch) => ~AutoOut(sketch)'
                   /\ ( /\ Monitored(sketch) >= Lower(sketch)
                        /\ Monitored(sketch) <= Upper(sketch) )
                        => AutoOut(sketch)' = AutoOut(sketch) ]_vars

\* the relay is held on by the hysteresis: the auto logic has run on a value
\* between the thresholds
C8_Witness ==
    /\ sketch = "template"
    /\ pc = "poll"
    /\ currentMode = "auto"
    /\ relayState
    /\ pins[RELAY_PIN] = HIGH
    /\ sensorValue > SENSOR_OFF
    /\ sensorValue <= SENSOR_ON

\* the route of the relay/fan output of a sketch
OutputRoute(s) ==
    CASE s = "tempmon" -> "/api/output1"
      [] s = "monolithic" -> "/api/relay"
      [] OTHER -> "/api/output2"

\* C9: while the mode is `manual` (before and after the step) no step of
\* the application loop changes the relay/fan output, whatever the sensor
\* value: its state and its pin level change only in the handling of a
\* request to the output's route.  (The blink test of the temperature
\* monitor pulses the pin inside its handler and puts the level back.)
C9_ManualOnlyByRequest ==
    [][ ( /\ currentMode = "manual"
          /\ currentMode' = "manual"
          /\ \/ AutoOut(sketch)' # AutoOut(sketch)
             \/ pins'[AutoPin(sketch)] # pins[AutoPin(sketch)] )
        => HandlerStep(OutputRoute(sketch)) ]_vars

\* the temperature monitor ran its auto section in manual mode on a hot
\* reading and left the fan off
C9_Witness ==
    /\ sketch = "tempmon"
    /\ pc = "update"
    /\ currentMode = "manual"
    /\ temperature > TEMP_THRESHOLD
    /\ ~fanState
    /\ pins[LED_PIN] = LOW

\* the relay/fan callback of the sketch is reachable on its route
OutputRegistered ==
    \/ sketch = "monolithic"
    \/ sketch \in {"template", "library"}
        /\ dashboard._output2Callback = "onRelayChange"
    \/ sketch = "tempmon" /\ dashboard._output1Callback = "onFanControl"

\* C10: a relay/fan output request with state s sets the relay/fan state
\* (and pin) to s when the mode is `manual` and leaves state and pin as they
\* are in every other mode; the response is HTTP 200 success in both cases.
C10_RelayOnlyInManual ==
    [][ ( /\ HandlerStep(OutputRoute(sketch))
          /\ hasArg(req', "state")
          /\ OutputRegistered )
        => /\ currentMode = "manual"
                => /\ AutoOut(sketch)' = (req'.args["state"] = "1")
                   /\ pins'[AutoPin(sketch)] = Level(req'.args["state"] = "1")
           /\ currentMode # "manual"
                => /\ AutoOut(sketch)' = AutoOut(sketch)
                   /\ pins' = pins
           /\ Len(Sends(trace')) = 1
           /\ Sends(trace')[1].code = 200
           /\ Sends(trace')[1].body.success = TRUE ]_vars

\* a relay-on request in auto mode was answered with success and ignored
C10_Witness ==
    /\ sketch = "template"
    /\ req = Request("/api/output2", Arg("state", "1"))
    /\ currentMode = "auto"
    /\ ~relayState
    /\ pins[RELAY_PIN] = LOW
    /\ Sends(trace) = <<SendEv(200, [success |-> TRUE])>>


\* the body of the response sent by the latest handler
Body(tr) == tr[Len(tr)].body

\* the sketches: setup() and loop() around a WebDashboard
LoopSketches == {"template", "tempmon", "light"}

\* C11: a mode string sent to /api/mode while a mode callback is registered
\* is answered with success and becomes the current mode exactly as sent;
\* every later /api/status response reports it as system.mode until another
\* request (a restart included) changes the mode.  The client of the bare
\* class must have supplied the system information for the report to have a
\* system object.
C11_ModeVerbatim ==
    [][/\ ( /\ HandlerStep("/api/mode")
            /\ sketch \in DashboardSketches
            /\ hasArg(req', "mode")
            /\ dashboard._modeCallback # nullptr )
          => /\ currentMode' = req'.args["mode"]
             /\ Sends(trace') = <<SendEv(200, SuccessDoc)>>
       /\ ( /\ HandlerStep("/api/status")
            /\ sketch \in DashboardSketches
            /\ sentMode # "none"
            /\ sketch \in LoopSketches \/ dashboard._systemInfo # nullptr )
          => /\ "system" \in DOMAIN Body(trace')
             /\ Body(trace').system.mode = sentMode
      ]_vars

\* a status poll of the temperature monitor reports the mode string "Auto"
\* that the latest mode request carried
C11_Witness ==
    /\ sketch = "tempmon"
    /\ req.route = "/api/status"
    /\ sentMode = "Auto"
    /\ "system" \in DOMAIN Body(trace)
    /\ Body(trace).system.mode = "Auto"

\* a mode string that is neither of the two the code compares with
OtherMode(m) == m \notin {"auto", "manual"}

\* C12: while the mode is a string other than "auto" and "manual" ("sleep",
\* "Auto", the empty string) the relay / fan state and its pin level do not
\* change: not by the logic of the loop, not by an output request.
C12_OtherModeFreezesOutput ==
    [][(OtherMode(currentMode) /\ OtherMode(currentMode'))
          => /\ relayState' = relayState
             /\ fanState' = fanState
             /\ pins'[AutoPin(sketch)] = pins[AutoPin(sketch)]
      ]_vars

\* in mode "sleep" the template has sampled a value above the upper
\* threshold and has answered a request to switch the relay on: it is off
C12_Witness ==
    /\ sketch = "template"
    /\ currentMode = "sleep"
    /\ sensorValue > SENSOR_ON
    /\ req.route = "/api/output2"
    /\ arg(req, "state") = "1"
    /\ Sends(trace) = <<SendEv(200, SuccessDoc)>>
    /\ ~relayState

\* the modes the documentation names
KnownModes == {"auto", "manual", "sleep"}

\* C13, as claimed: in every reachable state the current mode is one of
\* "auto", "manual", "sleep".
C13_ModeInClosedSet == currentMode \in KnownModes

\* C13, amended: the mode is "auto" at power-on; it changes only by a mode
\* request, which stores the string it carries, whatever it is, by the
\* auto toggle of the light-sensor sketch, which stores "auto" or "manual",
\* and by a restart, which brings back "auto".
C13_ModeFromRequests ==
    /\ currentMode = "auto"
    /\ [][currentMode' # currentMode
             => \/ /\ HandlerStep("/api/mode")
                   /\ hasArg(req', "mode")
                   /\ currentMode' = req'.args["mode"]
                \/ /\ HandlerStep("/api/output2")
                   /\ sketch = "light"
                   /\ currentMode' \in {"auto", "manual"}
                \/ /\ pc = "reset_restart"
                   /\ currentMode' = "auto"
         ]_vars

\* a mode request carrying "Auto" has been answered: the mode is "Auto"
C13_Witness ==
    /\ req.route = "/api/mode"
    /\ arg(req, "mode") = "Auto"
    /\ currentMode = "Auto"
    /\ currentMode \notin KnownModes

\* C14: every /api/status response of a sketch reports, as outputs.output1
\* and outputs.output2, the LED (fan) and relay state the application holds
\* at the moment the poll is handled, also right after the automatic logic
\* has switched the relay.
C14_StatusServesLatestOutputs ==
    ( /\ sketch \in LoopSketches
      /\ req.route = "/api/status"
      /\ "outputs" \in DOMAIN Body(trace) )
    => /\ Body(trace).outputs.output1 =
              (IF sketch = "tempmon" THEN fanState ELSE ledState)
       /\ sketch = "template" => Body(trace).outputs.output2 = relayState

\* the thread is in the sections of loop() after dashboard.loop()
InAppLoop == pc \in {"read", "update", "logic"}

\* C15: a request handler and the callback it calls run to completion inside
\* dashboard.loop(): a handler starts only at the call of dashboard.loop()
\* (or handleClient()), it ends with its response sent and the thread at the
\* next statement (a reset handler, once started, is the only thing that
\* runs until the restart), no section of the application loop serves a
\* request, and when a handler starts the SystemInfo it may report is whole:
\* its mode is the current mode.
C15_HandlersRunToCompletion ==
    /\ []((sketch \in LoopSketches /\ pc = "poll")
             => systemInfo.mode = currentMode)
    /\ [][/\ req'.route # "none"
             => \/ pc \in {"poll", "client"}
                \/ InReset /\ req' = req
          /\ (pc \in {"poll", "client"} /\ req'.route \notin
                                             {"none", "/api/reset"})
             => /\ Len(Sends(trace')) = 1
                /\ trace'[Len(trace')].ev = "send"
                /\ pc' = AfterPoll(sketch)
          /\ (pc \in {"poll", "client"} /\ req'.route = "/api/reset")
             => InReset'
          /\ InReset => req' = req /\ (InReset' \/ pc' = BootPc(sketch))
          /\ InAppLoop => req' = NoRequest /\ trace' = <<>>
         ]_vars

\* the mode handler of the temperature monitor has returned and left
\* systemInfo.mode behind the current mode; the thread is in the application
\* loop, which refreshes it before the next handler runs
C15_Witness ==
    /\ sketch = "tempmon"
    /\ pc = "read"
    /\ req.route = "/api/mode"
    /\ currentMode = "manual"
    /\ systemInfo.mode = "auto"

\* the DHT read of this iteration of the temperature monitor has failed
ReadFailed == sketch = "tempmon" /\ dhtRead = "failed"

\* C16: when a sensor read of the temperature monitor fails (temperature or
\* humidity is NaN) both values become 0; the same iteration goes on to the
\* auto logic (which, seeing 0, can only switch the fan off) and to the
\* dashboard update, which publishes the two zeros; and the next
\* dashboard.loop() serves what is pending, after which the thread is at
\* the sensor block of the next iteration (or in the reset it was asked
\* for).
C16_FailedReadGoesOn ==
    /\ [](ReadFailed => temperature = 0 /\ humidity = 0)
    /\ [][/\ (ReadFailed /\ pc = "logic")
             => /\ pc' = "update"
                /\ fanState' = (fanState /\ currentMode # "auto")
                /\ pins'[LED_PIN] = Level(fanState')
          /\ (ReadFailed /\ pc = "update")
             => /\ pc' = "poll"
                /\ sensors'.value1 = 0
                /\ sensors'.value2 = 0
                /\ outputs'.output1 = fanState
         ]_vars
    /\ (ReadFailed /\ pc = "logic") ~> (ReadFailed /\ pc = "poll")
    /\ (ReadFailed /\ pc = "poll")
          ~> (dhtRead = "none" /\ pc \in {"read", "reset_send"})

\* an iteration whose read failed has reached its end: the zeros are
\* published, the heat index of an earlier good read is still there
C16_Witness ==
    /\ ReadFailed
    /\ pc = "poll"
    /\ sensors.value1 = 0
    /\ sensors.value2 = 0
    /\ sensors.value3 # 0

\* C17: at the end of every iteration of loop(), in every sketch and after
\* any requests, each driven pin is at the level of its state variable: the
\* LED pin HIGH exactly if ledState (fanState in the temperature monitor),
\* the relay pin HIGH exactly if relayState.
C17_PinsMirrorStates ==
    pc = "poll"
    => CASE sketch = "template" ->
               /\ pins[LED_PIN] = Level(ledState)
               /\ pins[RELAY_PIN] = Level(relayState)
         [] sketch = "monolithic" ->
               /\ pins[LED_PIN] = Level(ledState)
               /\ pins[RELAY_PIN] = Level(relayState)
         [] sketch = "tempmon" -> pins[LED_PIN] = Level(fanState)
         [] sketch = "light" -> pins[LED_PIN] = Level(ledState)

\* C18: in the monolithic sketch, at the end of every iteration of loop()
\* run in mode "auto" the relay is on exactly if the sensor value is above
\* 2000 (state variable and pin); in any other mode no section of loop()
\* after handleClient() changes the relay.
C18_MonoRelayFollowsSensor ==
    /\ []((sketch = "monolithic" /\ pc = "poll" /\ currentMode = "auto")
             => /\ relayState = (sensorValue > 2000)
                /\ pins[RELAY_PIN] = Level(relayState))
    /\ [][(sketch = "monolithic" /\ InAppLoop)
             => /\ (pc = "logic" /\ currentMode = "auto")
                   => relayState' = (sensorValue > 2000)
                /\ currentMode # "auto"
                   => /\ relayState' = relayState
                      /\ pins'[RELAY_PIN] = pins[RELAY_PIN]
                /\ currentMode' = currentMode
         ]_vars

\* an iteration in mode "auto" has ended with a sample just above the
\* threshold: the relay is on
C18_Witness ==
    /\ sketch = "monolithic"
    /\ pc = "poll"
    /\ currentMode = "auto"
    /\ sensorValue = 2001
    /\ relayState
    /\ pins[RELAY_PIN] = HIGH

\* the state variable shown on the LED pin
LedOwner(s) == IF s = "tempmon" THEN fanState ELSE ledState

\* C19: the custom (blink) action of the template and of the temperature
\* monitor preserves the state: when its handler has returned, ledState,
\* fanState, relayState, the mode and the OutputStates are as before, and
\* the LED pin, after its pulses, is at the level it had, the level of the
\* state variable it shows.
C19_BlinkPreservesState ==
    [][(HandlerStep("/api/custom") /\ sketch \in {"template", "tempmon"})
          => /\ ledState' = ledState
             /\ fanState' = fanState
             /\ relayState' = relayState
             /\ currentMode' = currentMode
             /\ outputs' = outputs
             /\ Len(EventsOf(trace', "write")) = 2 * BlinkCount + 1
             /\ pins' = pins
             /\ pins'[LED_PIN] = Level(LedOwner(sketch)')
      ]_vars

\* the template has blinked while its LED was on: the LED is on again
C19_Witness ==
    /\ sketch = "template"
    /\ req.route = "/api/custom"
    /\ ledState
    /\ WriteEv(LED_PIN, LOW) \in {trace[i] : i \in 1..Len(trace)}
    /\ pins[LED_PIN] = HIGH

\* C20: in the template the LED is controlled in every mode: a request to
\* /api/output1 with a state parameter sets ledState, the LED pin and
\* outputs.output1 to the requested state (on for "1", off otherwise)
\* whatever the mode is, and no section of the application loop changes
\* ledState or the LED pin.
C20_LedInEveryMode ==
    [][/\ ( /\ HandlerStep("/api/output1")
            /\ sketch = "template"
            /\ hasArg(req', "state") )
          => /\ ledState' = (req'.args["state"] = "1")
             /\ pins'[LED_PIN] = Level(ledState')
             /\ outputs'.output1 = ledState'
             /\ currentMode' = currentMode
             /\ Sends(trace') = <<SendEv(200, SuccessDoc)>>
       /\ (sketch = "template" /\ InAppLoop)
          => /\ ledState' = ledState
             /\ pins'[LED_PIN] = pins[LED_PIN]
      ]_vars

\* in mode "auto", with the automatic logic holding the relay on, a request
\* has switched the LED on
C20_Witness ==
    /\ sketch = "template"
    /\ currentMode = "auto"
    /\ relayState
    /\ req.route = "/api/output1"
    /\ arg(req, "state") = "1"
    /\ ledState
    /\ pins[LED_PIN] = HIGH
    /\ outputs.output1

\* C21: in the light-sensor sketch, at the end of every iteration of loop()
\* run in mode "auto", ledState (and outputs.output1) is on exactly if the
\* averaged ADC value is at least 2000, whatever an LED request of the same
\* iteration asked for; in any other mode no section of the application
\* loop changes ledState.
C21_AutoLedFollowsLight ==
    /\ []((sketch = "light" /\ pc = "poll" /\ currentMode = "auto")
             => /\ ledState = (lightRawValue >= 2000)
                /\ outputs.output1 = ledState)
    /\ [][(sketch = "light" /\ InAppLoop)
             => /\ (pc = "logic" /\ currentMode = "auto")
                   => ledState' = (lightRawValue >= 2000)
                /\ currentMode # "auto" => ledState' = ledState
                /\ currentMode' = currentMode
         ]_vars

\* an iteration in mode "auto" has ended with the average at the threshold:
\* the LED is on
C21_Witness ==
    /\ sketch = "light"
    /\ pc = "poll"
    /\ currentMode = "auto"
    /\ lightRawValue = 2000
    /\ ledState
    /\ outputs.output1

\* the percentage readLightSensor() computes for the average avg
PercentOf(avg) == readLightSensor(Cur, avg).lightPercent

\* C22: the light percentage readLightSensor() computes is within 0..100 and
\* does not increase with the averaged ADC value (4095 gives 0, 0 gives
\* 100), and every average in 0..4095 has exactly one status: PIMEA from
\* 3000, HIMMEA for 2000..2999, VALOISA for 500..1999, KIRKAS below 500.
C22_PercentAndStatus ==
    pc = "update"
    => /\ lightRawValue \in 0..4095
       /\ lightPercent \in 0..100
       /\ lightRawValue = 4095 => lightPercent = 0
       /\ lightRawValue = 0 => lightPercent = 100
       /\ lightRawValue > 0 => lightPercent <= PercentOf(lightRawValue - 1)
       /\ lightStatus = "PIMEA" <=> lightRawValue >= 3000
       /\ lightStatus = "HIMMEA" <=> lightRawValue \in 2000..2999
       /\ lightStatus = "VALOISA" <=> lightRawValue \in 500..1999
       /\ lightStatus = "KIRKAS" <=> lightRawValue < 500

\* the sensor block has run on a window whose average is just below the
\* dark threshold
C22_Witness ==
    /\ pc = "update"
    /\ lightRawValue = 2999
    /\ lightPercent = 26
    /\ lightStatus = "HIMMEA"

\* C23: the output endpoints do not validate the state value: a request that
\* carries any state other than exactly "1" ("0", "true", the empty string)
\* invokes the registered callback once, with false, and is answered with
\* HTTP 200 and success, never with 400; the monolithic sketch likewise
\* takes such a value as off and answers 200.
C23_StateNotValidated ==
    /\ \A route \in {"/api/output1", "/api/output2"} :
          ( /\ sketch \in DashboardSketches
            /\ req.route = route
            /\ CallbackFor(route) # nullptr
            /\ hasArg(req, "state")
            /\ req.args["state"] # "1" )
          => /\ Calls(trace) = <<CallEv(CallbackFor(route), FALSE)>>
             /\ Sends(trace) = <<SendEv(200, SuccessDoc)>>
    /\ ( /\ sketch = "monolithic"
         /\ req.route \in {"/api/led", "/api/relay"}
         /\ hasArg(req, "state")
         /\ req.args["state"] # "1" )
       => /\ Len(Sends(trace)) = 1
          /\ Sends(trace)[1].code = 200
          /\ Sends(trace)[1].body.success
          /\ req.route = "/api/led" => ~ledState /\ pins[LED_PIN] = LOW
          /\ (req.route = "/api/relay" /\ currentMode = "manual")
             => ~relayState /\ pins[RELAY_PIN] = LOW

\* the LED callback of the template was invoked with false for the state
\* value "true"
C23_Witness ==
    /\ sketch = "template"
    /\ req = Request("/api/output1", Arg("state", "true"))
    /\ Calls(trace) = <<CallEv("onLEDChange", FALSE)>>
    /\ Sends(trace) = <<SendEv(200, SuccessDoc)>>
    /\ ~ledState

\* C24: a mode request changes only the mode: its handler leaves ledState,
\* relayState, fanState, the pin levels, the sensor and output data and the
\* dashboard object as they were, so an output that is on stays on into the
\* new mode.
C24_ModeChangeOnlyMode ==
    [][HandlerStep("/api/mode")
          => /\ ledState' = ledState
             /\ relayState' = relayState
             /\ fanState' = fanState
             /\ pins' = pins
             /\ outputs' = outputs
             /\ sensors' = sensors
             /\ dashboard' = dashboard
             /\ EventsOf(trace', "write") = <<>>
      ]_vars

\* the template has been put to sleep with its relay on: the relay is on
C24_Witness ==
    /\ sketch = "template"
    /\ req = Request("/api/mode", Arg("mode", "sleep"))
    /\ currentMode = "sleep"
    /\ relayState
    /\ pins[RELAY_PIN] = HIGH

\* C25: the read-only routes have no side effect: handling / or /api/status
\* invokes no callback, writes no pin and changes nothing the dashboard or
\* the application owns (data pointers, registered callbacks, mode, output
\* states, data structures), so the polls between other requests do not
\* change what those requests do.
C25_ReadOnlyRoutes ==
    [][(HandlerStep("/") \/ HandlerStep("/api/status"))
          => /\ UNCHANGED progVars
             /\ Calls(trace') = <<>>
             /\ EventsOf(trace', "write") = <<>>
             /\ Len(trace') = 1
             /\ sentMode' = sentMode
      ]_vars

\* the template has answered a status poll while in manual mode with LED
\* and relay on
C25_Witness ==
    /\ sketch = "template"
    /\ req.route = "/api/status"
    /\ currentMode = "manual"
    /\ ledState
    /\ relayState
    /\ trace = <<SendEv(200, StatusDoc(Cur))>>
    /\ "outputs" \in DOMAIN Body(trace)

\* C26: every request dispatched to a handler of the WebDashboard gets
\* exactly one HTTP response, on every path through the handler, and its
\* status is 200 or 400: the handlers other than handleReset have sent it
\* when they return; handleReset has sent nothing before its callback
\* returns and exactly one 200 from then on, up to and after the restart.
C26_ExactlyOneResponse ==
    ( /\ sketch \in DashboardSketches
      /\ req.route \in DashboardRoutes )
    => IF req.route = "/api/reset" /\ pc = "reset_send"
       THEN Sends(trace) = <<>>
       ELSE /\ Len(Sends(trace)) = 1
            /\ Sends(trace)[1].code \in {200, 400}
            /\ req.route \in {"/", "/api/status", "/api/custom", "/api/reset"}
               => Sends(trace)[1].code = 200

\* the light-sensor sketch has answered an output request that carried no
\* state parameter
C26_Witness ==
    /\ sketch = "light"
    /\ req = Request("/api/output1", NoArgs)
    /\ Len(Sends(trace)) = 1
    /\ Sends(trace)[1].code = 400
    /\ Len(trace) = 1

\* C27: in the temperature monitor a failed sensor read in auto mode with
\* the fan on switches the fan (and its pin) off in the same iteration,
\* because the 0 it stores is below the switch-off level; the failed read
\* and the rest of its iteration leave sensors.value3 (the heat index) at
\* its previous value, while value1 and value2 are published as 0.
C27_FailedReadFanOffIndexKept ==
    /\ [](0 < TEMP_THRESHOLD - 10)
    /\ []((ReadFailed /\ pc \in {"update", "poll"} /\ currentMode = "auto")
            => ~fanState /\ pins[LED_PIN] = LOW)
    /\ []((ReadFailed /\ pc = "poll")
            => /\ sensors.value1 = 0
               /\ sensors.value2 = 0
               /\ currentMode = "auto" => ~outputs.output1)
    /\ [][/\ (sketch = "tempmon" /\ pc = "read" /\ dhtRead' = "failed")
             => /\ sensors'.value3 = sensors.value3
                /\ temperature' = 0
                /\ humidity' = 0
          /\ (ReadFailed /\ pc = "logic" /\ currentMode = "auto" /\ fanState)
             => ~fanState' /\ pins'[LED_PIN] = LOW
          /\ (ReadFailed /\ InAppLoop)
             => sensors'.value3 = sensors.value3
         ]_vars

\* after a failed read in auto mode the fan is off, the dashboard data still
\* show the fan on and 25.1 degrees from the iteration before, and the heat
\* index is the one computed then
C27_Witness ==
    /\ ReadFailed
    /\ pc = "update"
    /\ currentMode = "auto"
    /\ ~fanState
    /\ temperature = 0
    /\ outputs.output1
    /\ sensors.value1 = 251
    /\ sensors.value3 = computeHeatIndex(251, 500)

\* C28: in the light-sensor sketch output 2 is the auto-mode toggle: a
\* /api/output2 request with a state parameter sets the mode to auto when
\* the state is true ("1") and to manual when it is false (anything else),
\* changing neither the LED nor outputs.output2 itself; and every
\* dashboard-data update leaves outputs.output2 true exactly when the mode
\* is auto.
C28_Output2IsAutoToggle ==
    [][/\ ( /\ sketch = "light"
            /\ HandlerStep("/api/output2")
            /\ hasArg(req', "state") )
          => /\ currentMode' = IF req'.args["state"] = "1"
                               THEN "auto" ELSE "manual"
             /\ systemInfo'.mode = currentMode'
             /\ UNCHANGED <<ledState, pins, outputs>>
       /\ (sketch = "light" /\ UpdateDashboard)
          => /\ outputs'.output2 = (currentMode = "auto")
             /\ currentMode' = currentMode
      ]_vars

\* the light-sensor sketch has published its data after output 2 was
\* switched off: the mode is manual (and not by a mode request) and
\* outputs.output2 is false
C28_Witness ==
    /\ sketch = "light"
    /\ pc = "logic"
    /\ currentMode = "manual"
    /\ sentMode = "none"
    /\ ~outputs.output2
    /\ systemInfo.mode = "manual"

\* C29: nothing of the application state survives a restart: when the
\* device has restarted out of /api/reset every variable of the program has
\* the value it has at power-up (mode auto, LED, relay and fan states false,
\* pins low, nothing registered with the dashboard), and setup() then
\* leaves the mode auto, the states false and the pins low.
C29_StateNotPersisted ==
    /\ [](Restarted => /\ Leave(Cur) = PowerOn(sketch)
                       /\ currentMode = "auto"
                       /\ ~ledState /\ ~relayState /\ ~fanState
                       /\ \A p \in DOMAIN pins : pins[p] = LOW)
    /\ [][pc = "setup"
          => /\ currentMode' = "auto"
             /\ ~ledState' /\ ~relayState' /\ ~fanState'
             /\ \A p \in DOMAIN pins' : pins'[p] = LOW
             /\ outputs'.output1 = FALSE
             /\ sketch \in LoopSketches => systemInfo'.mode = "auto"
         ]_vars

\* the light-sensor sketch has restarted out of a reset request: the mode
\* is auto again and the dashboard object is as constructed
C29_Witness ==
    /\ sketch = "light"
    /\ Restarted
    /\ req.route = "/api/reset"
    /\ currentMode = "auto"
    /\ ~ledState
    /\ pins[LED_PIN] = LOW
    /\ dashboard = NewDashboard
====
